---- MODULE Spec2Model ----
(***************************************************************************)
(* Call tracking: the views of call_tracking/views.py over the LeadSource  *)
(* and Lead tables and the telephony provider's account.                   *)
(*                                                                         *)
(* Strings the code inspects character by character (area codes, phone     *)
(* numbers) are sequences of one-character strings; strings it only        *)
(* stores or copies (names, caller data) are plain strings.                *)
(***************************************************************************)
EXTENDS Naturals, Sequences, FiniteSets

VARIABLES
    leadSources,  \* the LeadSource table: row pk is the index (autoincrement, no delete)
    leads,        \* the Lead table, in insertion order
    sold,         \* the numbers the provider has sold to this account (E.164)
    req,          \* the request handled last: [op, post]
    resp,         \* its outcome: response kind, redirect target, flash messages, body
    calls,        \* the provider API calls made while handling it, in order
    webhooks      \* forward_call handlers in flight (interleaved handling)

vars == <<leadSources, leads, sold, req, resp, calls, webhooks>>

\* ------------------------------------------------------------------ bounds

MaxLeads == 2
MaxWebhooks == 2

\* ------------------------------------------------------------------ text

Digits == {"0", "1", "2", "3", "4", "5", "6", "7", "8", "9"}

IsDigits(s) == \A i \in 1..Len(s) : s[i] \in Digits

\* AreaCodeForm: a required field of exactly three digits.
AreaCodeFormIsValid(post) ==
    /\ "area_code" \in DOMAIN post
    /\ Len(post.area_code) = 3
    /\ IsDigits(post.area_code)

PhonePunctuation == {"(", ")", " ", "-"}

NotPunctuation(c) == c \notin PhonePunctuation

InvalidPhone == [valid |-> FALSE, country_code |-> <<>>, national_number |-> <<>>]

\* Parsing of a phone number field (default region US): punctuation is
\* dropped; what is left is +1 and ten digits, or ten digits.
ParsePhone(raw) ==
    LET s == SelectSeq(raw, NotPunctuation) IN
    IF Len(s) = 12 /\ s[1] = "+" /\ s[2] = "1" /\ IsDigits(SubSeq(s, 3, 12))
    THEN [valid |-> TRUE, country_code |-> <<"1">>, national_number |-> SubSeq(s, 3, 12)]
    ELSE IF Len(s) = 10 /\ IsDigits(s)
    THEN [valid |-> TRUE, country_code |-> <<"1">>, national_number |-> s]
    ELSE InvalidPhone

as_e164(p) == <<"+">> \o p.country_code \o p.national_number

\* The provider's display form of a number: (415) 555-0001.
friendly_name(e164) ==
    <<"(">> \o SubSeq(e164, 3, 5) \o <<")", " ">> \o SubSeq(e164, 6, 8)
            \o <<"-">> \o SubSeq(e164, 9, 12)

AreaCodeOf(e164) == SubSeq(e164, 3, 5)

\* ------------------------------------------------------------------ inputs

N1 == <<"+", "1", "4", "1", "5", "5", "5", "5", "0", "0", "0", "1">>
N2 == <<"+", "1", "2", "1", "2", "5", "5", "5", "0", "0", "0", "2">>
F1 == <<"+", "1", "4", "1", "5", "5", "5", "5", "0", "1", "0", "0">>
F2 == <<"+", "1", "2", "1", "2", "5", "5", "5", "0", "2", "0", "0">>

\* The numbers the provider has for sale.
Inventory == {N1, N2}

AreaCodeInputs ==
    { <<"4", "1", "5">>, <<"2", "1", "2">>, <<"6", "5", "0">>,
      <<"4", "1">>, <<"4", "a", "5">>, <<>>, <<"4", "1", "5", "5">> }

ListNumbersPosts ==
    { [csrfmiddlewaretoken |-> "tok", area_code |-> a] : a \in AreaCodeInputs }
        \cup { [csrfmiddlewaretoken |-> "tok"] }

PurchasePhoneInputs ==
    { N1, friendly_name(N2), F1, <<"b", "o", "g", "u", "s">> }

PurchasePosts ==
    { [csrfmiddlewaretoken |-> "tok", phone_number |-> p] : p \in PurchasePhoneInputs }

Names == {"", "Billboard"}

ForwardingInputs == { F1, friendly_name(F2), <<"1", "2">> }

EditPosts ==
    { [csrfmiddlewaretoken |-> "tok", name |-> n, forwarding_number |-> f] :
        n \in Names, f \in ForwardingInputs }

CallerInfos ==
    { [Caller |-> "+14155550199", CallerCity |-> "NYC", CallerState |-> "NY"],
      [Caller |-> "anonymous", CallerCity |-> "", CallerState |-> ""] }

CalledInputs == { N1, N2, SubSeq(N1, 3, 12) }

WebhookPosts ==
    { [Called |-> c, Caller |-> i.Caller, CallerCity |-> i.CallerCity,
       CallerState |-> i.CallerState] : c \in CalledInputs, i \in CallerInfos }

\* The requests drawn while webhooks are interleaved.
ConcPurchasePosts == { post \in PurchasePosts : post.phone_number \in {N1, friendly_name(N2)} }

ConcEditPosts == { post \in EditPosts : post.name = "Billboard" /\ post.forwarding_number = F1 }

ConcWebhookPosts == { post \in WebhookPosts : post.Caller = "anonymous" }

NoPost == [csrfmiddlewaretoken |-> ""]

\* ------------------------------------------------------------------ responses

NoJson == [k \in {} |-> 0]

Response(kind, target, pk, messages, numbers, dial, json) ==
    [kind |-> kind, target |-> target, pk |-> pk, messages |-> messages,
     numbers |-> numbers, dial |-> dial, json |-> json]

Redirect(target, pk, messages) == Response("redirect", target, pk, messages, <<>>, <<>>, NoJson)

Render(template, numbers, messages) == Response("render", template, 0, messages, numbers, <<>>, NoJson)

Raise(exception) == Response("exception", exception, 0, <<>>, <<>>, <<>>, NoJson)

Message(level, text, arg) == [level |-> level, text |-> text, arg |-> arg]

ProviderCall(api, arg, ok, result) == [api |-> api, arg |-> arg, ok |-> ok, result |-> result]

\* ------------------------------------------------------------------ tables

MatchingSources(called) ==
    { pk \in DOMAIN leadSources : leadSources[pk].incoming_number = called }

LeadsOf(pk) == { i \in DOMAIN leads : leads[i].source = pk }

Idle == [pc |-> "idle", post |-> CHOOSE p \in WebhookPosts : TRUE, found |-> 0,
         forwarding_number |-> <<>>, outcome |-> "none"]

\* ------------------------------------------------------------------ provider

VoiceUrls ==
    { <<"e", "x", "a", "m", "p", "l", "e", ".", "c", "o", "m", "/", "v">>,
      <<"c", "t", ".", "i", "o", "/", "v">> }

ExampleCom == <<"e", "x", "a", "m", "p", "l", "e", ".", "c", "o", "m">>

\* Python's `sub in s` on strings.
Contains(s, sub) ==
    \E i \in 1..(Len(s) + 1) :
        /\ i + Len(sub) - 1 <= Len(s)
        /\ SubSeq(s, i, i + Len(sub) - 1) = sub

\* search_phone_numbers: the numbers for sale in the area code, in any order.
SearchResults(area_code) ==
    LET avail == { n \in Inventory \ sold : AreaCodeOf(n) = area_code } IN
    { s \in [1..Cardinality(avail) -> avail] :
        \A i, j \in DOMAIN s : i # j => s[i] # s[j] }

Init ==
    /\ leadSources = <<>>
    /\ leads = <<>>
    /\ sold = {}
    /\ req = [op |-> "none", pk |-> 0, post |-> NoPost]
    /\ resp = Render("none", <<>>, <<>>)
    /\ calls = <<>>
    /\ webhooks = [w \in 1..MaxWebhooks |-> Idle]

\* ------------------------------------------------------------------ reporting

SourceName(lead) == leadSources[lead.source].name

\* LeadSource.get_leads_per_source: label -> count, aggregated from the Lead
\* rows (a source without leads has no entry).
get_leads_per_source ==
    [n \in { SourceName(leads[i]) : i \in DOMAIN leads } |->
        Cardinality({ i \in DOMAIN leads : SourceName(leads[i]) = n })]

\* Lead.get_leads_per_city: city -> count.
get_leads_per_city ==
    [c \in { leads[i].city : i \in DOMAIN leads } |->
        Cardinality({ i \in DOMAIN leads : leads[i].city = c })]

HomePageView ==
    /\ req' = [op |-> "home", pk |-> 0, post |-> NoPost]
    /\ resp' = Render("index.html", <<>>, <<>>)
    /\ calls' = <<>>
    /\ UNCHANGED <<leadSources, leads, sold, webhooks>>

leads_by_source ==
    /\ req' = [op |-> "leads_by_source", pk |-> 0, post |-> NoPost]
    /\ resp' = Response("json", "", 0, <<>>, <<>>, <<>>, get_leads_per_source)
    /\ calls' = <<>>
    /\ UNCHANGED <<leadSources, leads, sold, webhooks>>

leads_by_city ==
    /\ req' = [op |-> "leads_by_city", pk |-> 0, post |-> NoPost]
    /\ resp' = Response("json", "", 0, <<>>, <<>>, <<>>, get_leads_per_city)
    /\ calls' = <<>>
    /\ UNCHANGED <<leadSources, leads, sold, webhooks>>

\* ------------------------------------------------------------------ search

\* Mutant: the empty result is not checked for.
SearchResponseAlwaysRender(area_code, available_numbers) ==
    Render("call_tracking/list_numbers.html", available_numbers, <<>>)

NoNumbersResponse(area_code) ==
    Redirect("home", 0, <<Message("error", "There are no Twilio numbers available for area code {0}.", area_code)>>)

SearchResponse(area_code, available_numbers) ==
    IF available_numbers = <<>>
    THEN NoNumbersResponse(area_code)
    ELSE Render("call_tracking/list_numbers.html", available_numbers, <<>>)

\* form.data['area_code'] is a subscript: a request without the field raises.
InvalidAreaCodeResponse(post) ==
    IF "area_code" \in DOMAIN post
    THEN Redirect("home", 0, <<Message("error", "{0} is not a valid area code. Please search again.", post.area_code)>>)
    ELSE Raise("MultiValueDictKeyError")

list_numbers(post) ==
    /\ req' = [op |-> "list_numbers", pk |-> 0, post |-> post]
    /\ UNCHANGED <<leadSources, leads, sold, webhooks>>
    /\ IF AreaCodeFormIsValid(post)
       THEN \/ \E result \in SearchResults(post.area_code) :
                 /\ calls' = <<ProviderCall("search", post.area_code, TRUE, result)>>
                 /\ resp' = SearchResponse(post.area_code, result)
            \/ /\ calls' = <<ProviderCall("search", post.area_code, FALSE, <<>>)>>
               /\ resp' = Raise("TwilioRestException")
       ELSE /\ calls' = <<>>
            /\ resp' = InvalidAreaCodeResponse(post)

\* ------------------------------------------------------------------ purchase

\* What purchase_phone_number returns for a number the provider sold.
TwilioNumber(e164) == [phone_number |-> e164, friendly_name |-> friendly_name(e164)]

\* Mutant: the display form is stored instead of the E.164 number.
NewLeadSourceFriendly(twilio_number) ==
    [incoming_number |-> twilio_number.friendly_name, name |-> "", forwarding_number |-> <<>>]

\* LeadSource(incoming_number=twilio_number.phone_number): the other fields
\* keep the model's defaults, the empty string.
NewLeadSource(twilio_number) ==
    [incoming_number |-> twilio_number.phone_number, name |-> "", forwarding_number |-> <<>>]

PurchaseMessages(twilio_number, voice_url) ==
    <<Message("success", "Phone number {0} has been purchased. Please add a name for this lead source.", twilio_number.friendly_name)>>
      \o (IF Contains(voice_url, ExampleCom)
          THEN <<Message("warning", "WARNING: You must update the Twilio Application's voice URL", <<>>)>>
          ELSE <<>>)

\* Mutant: the LeadSource is saved before the provider is asked.
RejectedPurchaseSaved(number) ==
    /\ leadSources' = Append(leadSources, [incoming_number |-> number, name |-> "", forwarding_number |-> <<>>])
    /\ UNCHANGED sold

\* purchase_phone_number raises: the statements after it do not run.
RejectedPurchase(number) == UNCHANGED <<leadSources, sold>>

InvalidPhoneResponse(post) ==
    Redirect("home", 0, <<Message("error", "{0} is not a valid phone number. Please search again.", post.phone_number)>>)

purchase_number(post) ==
    /\ req' = [op |-> "purchase_number", pk |-> 0, post |-> post]
    /\ UNCHANGED <<leads, webhooks>>
    /\ IF ParsePhone(post.phone_number).valid
       THEN \/ \* get_twilio_application fails
               /\ calls' = <<ProviderCall("application", <<>>, FALSE, <<>>)>>
               /\ resp' = Raise("TwilioRestException")
               /\ UNCHANGED <<leadSources, sold>>
            \/ \E voice_url \in VoiceUrls :
                 LET number == as_e164(ParsePhone(post.phone_number))
                     application == ProviderCall("application", <<>>, TRUE, <<voice_url>>)
                 IN \/ \* the provider sells the number
                       /\ number \in Inventory \ sold
                       /\ sold' = sold \cup {number}
                       /\ calls' = <<application, ProviderCall("purchase", number, TRUE, <<number>>)>>
                       /\ leadSources' = Append(leadSources, NewLeadSource(TwilioNumber(number)))
                       /\ resp' = Redirect("edit_lead_source", Len(leadSources'),
                                           PurchaseMessages(TwilioNumber(number), voice_url))
                    \/ \* the provider rejects the purchase
                       /\ calls' = <<application, ProviderCall("purchase", number, FALSE, <<>>)>>
                       /\ resp' = Raise("TwilioRestException")
                       /\ RejectedPurchase(number)
       ELSE /\ calls' = <<>>
            /\ resp' = InvalidPhoneResponse(post)
            /\ UNCHANGED <<leadSources, sold>>

\* ------------------------------------------------------------------ edit

\* The ModelForm of fields = ['name', 'forwarding_number'].
LeadSourceFormIsValid(post) == ParsePhone(post.forwarding_number).valid

\* Mutant: incoming_number is among the form's fields.
SaveLeadSourceFormIncoming(row, post) ==
    [row EXCEPT !.name = post.name,
                !.incoming_number = as_e164(ParsePhone(post.forwarding_number))]

\* form.save(): the listed fields are written, the number as its E.164 text.
SaveLeadSourceForm(row, post) ==
    [row EXCEPT !.name = post.name,
                !.forwarding_number = as_e164(ParsePhone(post.forwarding_number))]

LeadSourceUpdateView(pk, post) ==
    /\ req' = [op |-> "edit_lead_source", pk |-> pk, post |-> post]
    /\ calls' = <<>>
    /\ UNCHANGED <<leads, sold, webhooks>>
    /\ IF pk \notin DOMAIN leadSources
       THEN /\ resp' = Response("not_found", "", 0, <<>>, <<>>, <<>>, NoJson)
            /\ UNCHANGED leadSources
       ELSE IF LeadSourceFormIsValid(post)
       THEN /\ leadSources' = [leadSources EXCEPT ![pk] = SaveLeadSourceForm(@, post)]
            /\ resp' = Redirect("home", 0, <<Message("success", "Lead source successfully updated.", <<>>)>>)
       ELSE /\ resp' = Render("call_tracking/leadsource_form.html", <<>>, <<>>)
            /\ UNCHANGED leadSources

\* ------------------------------------------------------------------ webhook

\* Mutant: city and state are taken from each other's request field.
NewLeadSwapped(source_pk, post) ==
    [source |-> source_pk, phone_number |-> post.Caller,
     city |-> post.CallerState, state |-> post.CallerCity]

\* Lead(source=source, phone_number=Caller, city=CallerCity, state=CallerState)
NewLead(source_pk, post) ==
    [source |-> source_pk, phone_number |-> post.Caller,
     city |-> post.CallerCity, state |-> post.CallerState]

\* Mutant: a source keeps one Lead, which the new call overwrites.
SaveLeadUpsert(table, lead) ==
    IF \E i \in DOMAIN table : table[i].source = lead.source
    THEN [i \in DOMAIN table |-> IF table[i].source = lead.source THEN lead ELSE table[i]]
    ELSE Append(table, lead)

\* Mutant: a call equal to a stored Lead is not stored again.
SaveLeadDedup(table, lead) ==
    IF \E i \in DOMAIN table : table[i] = lead THEN table ELSE Append(table, lead)

\* lead.save(): one row inserted.
SaveLead(table, lead) == Append(table, lead)

\* The stored column read back: a PhoneNumber, or the empty string as it is.
HasPhoneNumber(column) == ParsePhone(column).valid

\* r.dial(source.forwarding_number.as_e164): the empty string has no as_e164.
DialResponse(forwarding_number) ==
    IF HasPhoneNumber(forwarding_number)
    THEN Response("twiml", "", 0, <<>>, <<>>, as_e164(ParsePhone(forwarding_number)), NoJson)
    ELSE Raise("AttributeError")

\* forward_call handled without interruption.
forward_call(post) ==
    /\ req' = [op |-> "forward_call", pk |-> 0, post |-> post]
    /\ calls' = <<>>
    /\ UNCHANGED <<leadSources, sold, webhooks>>
    /\ IF MatchingSources(post.Called) = {}
       THEN /\ resp' = Raise("DoesNotExist")
            /\ UNCHANGED leads
       ELSE LET pk == CHOOSE k \in MatchingSources(post.Called) : TRUE IN
            /\ Len(leads) < MaxLeads
            /\ leads' = SaveLead(leads, NewLead(pk, post))
            /\ resp' = DialResponse(leadSources[pk].forwarding_number)

\* forward_call handled concurrently with other requests: its three
\* statements are separate steps of handler w.

\* source = LeadSource.objects.get(incoming_number=request.POST['Called'])
forward_call_get(w, post) ==
    /\ webhooks[w].pc = "idle"
    /\ \A v \in 1..(w - 1) : webhooks[v].pc # "idle"   \* handlers are numbered as they start
    /\ webhooks' =
         [webhooks EXCEPT ![w] =
            IF MatchingSources(post.Called) = {}
            THEN [@ EXCEPT !.pc = "done", !.post = post, !.outcome = "DoesNotExist"]
            ELSE LET pk == CHOOSE k \in MatchingSources(post.Called) : TRUE IN
                 [@ EXCEPT !.pc = "save", !.post = post, !.found = pk,
                           !.forwarding_number = leadSources[pk].forwarding_number]]
    /\ UNCHANGED <<leadSources, leads, sold, req, resp, calls>>

\* lead = Lead(...); lead.save()
forward_call_save(w) ==
    /\ webhooks[w].pc = "save"
    /\ leads' = SaveLead(leads, NewLead(webhooks[w].found, webhooks[w].post))
    /\ webhooks' = [webhooks EXCEPT ![w].pc = "respond"]
    /\ UNCHANGED <<leadSources, sold, req, resp, calls>>

\* r.dial(source.forwarding_number.as_e164); return HttpResponse(r)
forward_call_respond(w) ==
    /\ webhooks[w].pc = "respond"
    /\ webhooks' = [webhooks EXCEPT ![w].pc = "done",
                                    ![w].outcome = DialResponse(webhooks[w].forwarding_number).kind]
    /\ UNCHANGED <<leadSources, leads, sold, req, resp, calls>>

Next ==
    \/ HomePageView
    \/ leads_by_source
    \/ leads_by_city
    \/ \E post \in ListNumbersPosts : list_numbers(post)
    \/ \E post \in PurchasePosts : purchase_number(post)
    \/ \E pk \in 1..(Len(leadSources) + 1), post \in EditPosts : LeadSourceUpdateView(pk, post)
    \/ \E post \in WebhookPosts : forward_call(post)

Spec == Init /\ [][Next]_vars

\* Webhooks handled concurrently with each other and with purchases and edits.
NextConc ==
    \/ \E post \in ConcPurchasePosts : purchase_number(post)
    \/ \E pk \in DOMAIN leadSources, post \in ConcEditPosts : LeadSourceUpdateView(pk, post)
    \/ \E w \in DOMAIN webhooks, post \in ConcWebhookPosts : forward_call_get(w, post)
    \/ \E w \in DOMAIN webhooks : forward_call_save(w)
    \/ \E w \in DOMAIN webhooks : forward_call_respond(w)

ConcSpec == Init /\ [][NextConc]_vars

\* ------------------------------------------------------------------ claims

IsE164(s) == ParsePhone(s).valid /\ as_e164(ParsePhone(s)) = s

LastRow(table) == table[Len(table)]

Extends(table, larger) ==
    /\ Len(larger) >= Len(table)
    /\ SubSeq(larger, 1, Len(table)) = table

\* C1: a forward_call webhook whose Called equals the incoming_number of a
\* LeadSource appends exactly one Lead, of that source, with phone_number,
\* city and state equal to Caller, CallerCity and CallerState; the stored
\* Leads and the LeadSources stay as they were.
C1_MatchedCallAddsOneLead ==
    [][ (req'.op = "forward_call" /\ MatchingSources(req'.post.Called) # {}) =>
          \E pk \in MatchingSources(req'.post.Called) :
             /\ leads' = Append(leads, [source |-> pk,
                                        phone_number |-> req'.post.Caller,
                                        city |-> req'.post.CallerCity,
                                        state |-> req'.post.CallerState])
             /\ leadSources' = leadSources ]_vars

\* A second call from the same caller to the same number has been stored.
C1_Witness ==
    /\ req.op = "forward_call"
    /\ MatchingSources(req.post.Called) # {}
    /\ Len(leads) = 2
    /\ leads[1] = leads[2]
    /\ leads[2].city = "NYC"

\* C2: a forward_call webhook whose Called matches a LeadSource always
\* answers with the dial instruction for that source's forwarding_number in
\* E.164 form, also for a source that was purchased and never edited.
C2_MatchedCallAlwaysDials ==
    (req.op = "forward_call" /\ MatchingSources(req.post.Called) # {}) =>
        \E pk \in MatchingSources(req.post.Called) :
           /\ resp.kind = "twiml"
           /\ IsE164(resp.dial)
           /\ resp.dial = leadSources[pk].forwarding_number

\* C3: a forward_call webhook whose Called matches no LeadSource creates no
\* Lead, leaves the store unchanged and answers with an explicit failure
\* response, not an unhandled exception.
C3_UnmatchedCallFailsExplicitly ==
    [][ (req'.op = "forward_call" /\ MatchingSources(req'.post.Called) = {}) =>
          /\ leads' = leads
          /\ leadSources' = leadSources
          /\ resp'.kind # "exception" ]_vars

\* C4: a purchase_number request with a valid number that the provider
\* sells creates exactly one LeadSource, with the number the provider
\* returned as incoming_number and an empty name, changes no other
\* LeadSource and no Lead, and redirects to the edit screen of the new row.
C4_PurchaseCreatesOneLeadSource ==
    [][ (req'.op = "purchase_number" /\ sold' # sold) =>
          /\ ParsePhone(req'.post.phone_number).valid
          /\ calls'[Len(calls')].api = "purchase"
          /\ calls'[Len(calls')].ok
          /\ sold' = sold \cup {calls'[Len(calls')].result[1]}
          /\ Len(leadSources') = Len(leadSources) + 1
          /\ Extends(leadSources, leadSources')
          /\ LastRow(leadSources').incoming_number = calls'[Len(calls')].result[1]
          /\ LastRow(leadSources').name = ""
          /\ leads' = leads
          /\ resp'.kind = "redirect"
          /\ resp'.target = "edit_lead_source"
          /\ resp'.pk = Len(leadSources') ]_vars

\* A number submitted in display form has been bought as the second source.
C4_Witness ==
    /\ req.op = "purchase_number"
    /\ req.post.phone_number = friendly_name(N2)
    /\ resp.target = "edit_lead_source"
    /\ resp.pk = 2
    /\ leadSources[2].incoming_number = N2

\* C5: an area-code search whose area code is invalid (wrong length, not
\* digits, or missing from the request) calls no provider search, records an
\* error notification naming the input, redirects home and raises nothing.
C5_InvalidAreaCodeRedirects ==
    (req.op = "list_numbers" /\ ~AreaCodeFormIsValid(req.post)) =>
        /\ calls = <<>>
        /\ resp.kind = "redirect"
        /\ resp.target = "home"
        /\ Len(resp.messages) = 1
        /\ resp.messages[1].level = "error"
        /\ "area_code" \in DOMAIN req.post => resp.messages[1].arg = req.post.area_code

\* C6: a successful edit of LeadSource pk stores the submitted name and
\* forwarding number (as E.164) on that row and changes neither its
\* incoming_number, nor another LeadSource, nor a Lead; and no step ever
\* changes the incoming_number of a stored LeadSource.
C6_EditWritesNameAndForwardingOnly ==
    /\ [][ (req'.op = "edit_lead_source" /\ resp'.kind = "redirect") =>
             /\ req'.pk \in DOMAIN leadSources
             /\ leadSources' =
                  [leadSources EXCEPT ![req'.pk] =
                     [incoming_number |-> @.incoming_number,
                      name |-> req'.post.name,
                      forwarding_number |-> as_e164(ParsePhone(req'.post.forwarding_number))]]
             /\ leads' = leads ]_vars
    /\ [][ \A pk \in DOMAIN leadSources :
             /\ pk \in DOMAIN leadSources'
             /\ leadSources'[pk].incoming_number = leadSources[pk].incoming_number ]_vars

\* The second source has been renamed and given a number typed in display form.
C6_Witness ==
    /\ req.op = "edit_lead_source"
    /\ resp.kind = "redirect"
    /\ req.pk = 2
    /\ req.post.forwarding_number = friendly_name(F2)
    /\ leadSources[2] = [incoming_number |-> N2, name |-> "Billboard", forwarding_number |-> F2]
    /\ leadSources[1].forwarding_number = <<>>

\* C7: every step keeps the stored Leads as they are and keeps every
\* LeadSource row in the table; only forward_call adds Leads and only
\* purchase_number adds LeadSources.
C7_RowsAreOnlyAdded ==
    [][ /\ Extends(leads, leads')
        /\ Len(leadSources') >= Len(leadSources)
        /\ leads' # leads => req'.op = "forward_call"
        /\ Len(leadSources') # Len(leadSources) => req'.op = "purchase_number" ]_vars

\* Two calls to one source from different callers are both stored, after an edit.
C7_Witness ==
    /\ Len(leads) = 2
    /\ leads[1].source = leads[2].source
    /\ leads[1].phone_number # leads[2].phone_number
    /\ Len(leadSources) = 2
    /\ leadSources[1].name = "Billboard"

PurchaseFailed(request, provider_calls) ==
    \/ ~ParsePhone(request.post.phone_number).valid
    \/ \E i \in DOMAIN provider_calls : ~provider_calls[i].ok

\* C8: the incoming_number of every LeadSource is a number the provider
\* sold to the account; a LeadSource is saved only after the purchase call
\* returned that number, and a purchase request with an invalid form or a
\* rejected purchase leaves the LeadSources as they were.
C8_LeadSourcesAreSoldNumbers ==
    /\ [](\A pk \in DOMAIN leadSources : leadSources[pk].incoming_number \in sold)
    /\ [][ /\ (req'.op = "purchase_number" /\ PurchaseFailed(req', calls')) =>
                leadSources' = leadSources
           /\ Len(leadSources') > Len(leadSources) =>
                \E i \in DOMAIN calls' :
                   /\ calls'[i].api = "purchase"
                   /\ calls'[i].ok
                   /\ calls'[i].result = <<LastRow(leadSources').incoming_number>> ]_vars

\* The provider has rejected the purchase of a number that is for sale.
C8_Witness ==
    /\ req.op = "purchase_number"
    /\ Len(calls) = 2
    /\ calls[2].api = "purchase"
    /\ ~calls[2].ok
    /\ calls[2].arg \in Inventory \ sold
    /\ Len(leadSources) = 1

\* C9: a search with a valid area code renders the candidate numbers exactly
\* when the provider search returned a non-empty sequence; on an empty
\* sequence it records an error notification and redirects home; and a
\* search creates or changes no LeadSource and no Lead.
C9_SearchRendersIffNumbers ==
    /\ []((req.op = "list_numbers" /\ AreaCodeFormIsValid(req.post)) =>
            /\ Len(calls) = 1
            /\ calls[1].api = "search"
            /\ calls[1].arg = req.post.area_code
            /\ resp.kind = "render" <=> (calls[1].ok /\ calls[1].result # <<>>)
            /\ resp.kind = "render" => resp.numbers = calls[1].result
            /\ (calls[1].ok /\ calls[1].result = <<>>) =>
                  /\ resp.kind = "redirect"
                  /\ resp.target = "home"
                  /\ Len(resp.messages) = 1
                  /\ resp.messages[1].level = "error"
                  /\ resp.messages[1].arg = req.post.area_code)
    /\ [][ req'.op = "list_numbers" => (leadSources' = leadSources /\ leads' = leads) ]_vars

\* The area code of a number that has just been sold has nothing left.
C9_Witness ==
    /\ req.op = "list_numbers"
    /\ AreaCodeFormIsValid(req.post)
    /\ req.post.area_code = AreaCodeOf(N1)
    /\ N1 \in sold
    /\ calls[1].ok
    /\ calls[1].result = <<>>
    /\ resp.kind = "redirect"

AllCompleted == \A w \in DOMAIN webhooks : webhooks[w].pc \in {"idle", "done"}

CompletedFor(pk) ==
    { w \in DOMAIN webhooks : webhooks[w].pc = "done" /\ webhooks[w].found = pk }

NoLeadLost ==
    /\ \A w \in DOMAIN webhooks :
         webhooks[w].found # 0 =>
            leadSources[webhooks[w].found].incoming_number = webhooks[w].post.Called
    /\ AllCompleted =>
         \A pk \in DOMAIN leadSources : Cardinality(LeadsOf(pk)) = Cardinality(CompletedFor(pk))

\* The count leads_by_source shows for a LeadSource: the entry of its name.
ReportedCount(pk) ==
    IF leadSources[pk].name \in DOMAIN get_leads_per_source
    THEN get_leads_per_source[leadSources[pk].name]
    ELSE 0

NameIsUnique(pk) ==
    \A other \in DOMAIN leadSources : other # pk => leadSources[other].name # leadSources[pk].name

====
